---- MODULE Spec2Model ----
(***************************************************************************)
(* Model of the non-empty-iter crate: wrapper values that carry the        *)
(* non-empty capability, their downgrade (into_iter) to the ordinary       *)
(* pull protocol, and the derived operations of NonEmptyIterator.          *)
(*                                                                         *)
(* A wrapper is a record that mirrors the struct of the source             *)
(* ([kind |-> "Take", non_empty |-> w, count |-> k]).  An ordinary         *)
(* iterator is a record that mirrors the core::iter state the wrapper      *)
(* downgrades to ([kind |-> "take", iter |-> i, n |-> k]).  next(it)       *)
(* returns the pulled Option, the iterator after the pull and the events   *)
(* (pulls of an original producer, closure calls) the pull caused.         *)
(***************************************************************************)
EXTENDS Integers, Sequences, FiniteSets, TLC

\* ---------------------------------------------------------------- bounds
MaxVal == 2
MaxLen == 2
MaxCount == 2
MaxDepth == 2
MaxPulls == 6

Vals == 1..MaxVal
Counts == 1..MaxCount

\* Option<T>: None is the empty sequence, Some(x) the sequence <<x>>.
None == << >>
Some(x) == << x >>
IsSome(o) == Len(o) = 1
Unwrap(o) == o[1]

RECURSIVE ListsUpTo(_)
ListsUpTo(n) ==
    IF n = 0 THEN { << >> }
    ELSE LET shorter == ListsUpTo(n - 1)
         IN shorter \cup { Append(l, v) : l \in { s \in shorter : Len(s) = n - 1 }, v \in Vals }

\* The possibly-empty ordinary producers handed to the crate.
Lists == ListsUpTo(MaxLen)

Min2(a, b) == IF a < b THEN a ELSE b

\* ------------------------------------------------ ordinary iterator states
\* A collection's own iterator (vec::IntoIter); tag names the producer.
VecIter(items, tag) == [kind |-> "vec", items |-> items, tag |-> tag]

Ret(val, it, ev) == [val |-> val, it |-> it, ev |-> ev]

\* --------------------------------------------------------------- wrappers
NoWrapper == [kind |-> "none"]
NoIter == [kind |-> "none"]

\* NonEmptyAdapter::new (unsafe): Self { iterable }
NonEmptyAdapter_new(iterable, T) == [kind |-> "NonEmptyAdapter", iterable |-> iterable, T |-> T]

\* Once::new / once(value)
once(value, T) == [kind |-> "Once", value |-> value, T |-> T]

\* RepeatN::new / repeat_n(item, count)
repeat_n(item, count, T) == [kind |-> "RepeatN", item |-> item, count |-> count, T |-> T]

\* Peeked::new(item, rest)
Peeked_new(item, rest, T) == [kind |-> "Peeked", item |-> item, rest |-> rest, T |-> T]

\* Take::new(non_empty, count)
Take_new(non_empty, n) == [kind |-> "Take", non_empty |-> non_empty, count |-> n]

\* StepBy::new(non_empty, step)
StepBy_new(non_empty, step) == [kind |-> "StepBy", non_empty |-> non_empty, step |-> step]

\* Zip::new(first, second)
Zip_new(first, second) == [kind |-> "Zip", first |-> first, second |-> second]

\* Chain::new(non_empty, maybe_empty)
Chain_new(non_empty, maybe_empty) ==
    [kind |-> "Chain", non_empty |-> non_empty, maybe_empty |-> maybe_empty]

\* Map::new(non_empty, function)
Map_new(non_empty, function) == [kind |-> "Map", non_empty |-> non_empty, function |-> function]

\* Cloned::new / Copied::new / Enumerate::new / Inspect::new / Fuse::new / Rev::new / Cycle::new
Cloned_new(non_empty) == [kind |-> "Cloned", non_empty |-> non_empty]
Copied_new(non_empty) == [kind |-> "Copied", non_empty |-> non_empty]
Enumerate_new(non_empty) == [kind |-> "Enumerate", non_empty |-> non_empty]
Inspect_new(non_empty) == [kind |-> "Inspect", non_empty |-> non_empty]
Fuse_new(non_empty) == [kind |-> "Fuse", non_empty |-> non_empty]
Rev_new(non_empty) == [kind |-> "Rev", non_empty |-> non_empty]
Cycle_new(non_empty) == [kind |-> "Cycle", non_empty |-> non_empty]

\* Flatten::new(non_empty) / FlatMap::new(non_empty, function)
Flatten_new(non_empty) == [kind |-> "Flatten", non_empty |-> non_empty]
FlatMap_new(non_empty, function) ==
    [kind |-> "FlatMap", non_empty |-> non_empty, function |-> function]

\* Repeat::new / repeat(item)
repeat(item) == [kind |-> "Repeat", item |-> item, T |-> "int"]

\* RepeatWith::new / repeat_with(function)
repeat_with(function) == [kind |-> "RepeatWith", function |-> function, T |-> "int"]

\* OnceWith::new / once_with(function)
once_with(function) == [kind |-> "OnceWith", function |-> function, T |-> "int"]

\* Successors::new / successors(initial, successor)
successors(initial, successor) ==
    [kind |-> "Successors", initial |-> initial, successor |-> successor, T |-> "int"]

\* A caller's type that implements IntoIterator (yielding items) and, separately,
\* IntoNonEmptyIterator (returning non_empty): the trait is safe to implement.
UserIterable(items, non_empty) == [kind |-> "User", items |-> items, non_empty |-> non_empty]


\* A caller's iterator that is not fused: it yields items, signals exhaustion
\* once, and yields again afterwards.
Resuming(items, again, tag) ==
    [kind |-> "resuming", items |-> items, again |-> again, tag |-> tag]

resuming_next(it) ==
    IF it.items = << >>
    THEN Ret(None, [it EXCEPT !.items = it.again, !.again = << >>], << "pull." \o it.tag >>)
    ELSE Ret(Some(Head(it.items)), [it EXCEPT !.items = Tail(it.items)],
             << "pull." \o it.tag >>)

RECURSIVE next(_)
RECURSIVE next_back(_)
RECURSIVE nth(_, _)
RECURSIVE into_iter(_)

vec_next(it) ==
    IF it.items = << >>
    THEN Ret(None, it, << "pull." \o it.tag >>)
    ELSE Ret(Some(Head(it.items)), [it EXCEPT !.items = Tail(it.items)],
             << "pull." \o it.tag >>)

\* iter.peekable(): Peekable { iter, peeked: None }
peekable(it) == [kind |-> "peekable", iter |-> it, peeked |-> None]

\* Peekable::peek: peeked.get_or_insert_with(|| iter.next())
peek(p) ==
    IF IsSome(p.peeked)
    THEN Ret(Unwrap(p.peeked), p, << >>)
    ELSE LET r == next(p.iter)
         IN Ret(r.val, [p EXCEPT !.iter = r.it, !.peeked = Some(r.val)], r.ev)

\* A lookahead that forgets the element it looked at.
peekable_next_lossy(p) ==
    LET r == next(p.iter)
    IN Ret(r.val, [p EXCEPT !.iter = r.it, !.peeked = None], r.ev)

\* Peekable::next: match peeked.take() { Some(v) => v, None => iter.next() }
peekable_next(p) ==
    IF IsSome(p.peeked)
    THEN Ret(Unwrap(p.peeked), [p EXCEPT !.peeked = None], << >>)
    ELSE LET r == next(p.iter)
         IN Ret(r.val, [p EXCEPT !.iter = r.it], r.ev)

\* iter::once(value): Once { inner: Some(value) }
once_iter(v) == [kind |-> "once", inner |-> Some(v)]

once_next(it) == Ret(it.inner, [it EXCEPT !.inner = None], << >>)

\* iter::repeat_n(item, count)
repeat_n_iter(item, n) == [kind |-> "repeat_n", element |-> item, count |-> n]

repeat_n_next(it) ==
    IF it.count > 0
    THEN Ret(Some(it.element), [it EXCEPT !.count = it.count - 1], << >>)
    ELSE Ret(None, it, << >>)

\* A chain that runs the right side first.
chain_iter_right_first(a, b) == [kind |-> "chain", a |-> Some(b), b |-> Some(a)]

\* a.chain(b): Chain { a: Some(a), b: Some(b) }
chain_iter(a, b) == [kind |-> "chain", a |-> Some(a), b |-> Some(b)]

\* Chain::next: and_then_or_clear(&mut a, next).or_else(|| b.as_mut()?.next())
chain_next(it) ==
    LET ra == next(Unwrap(it.a))
        afterA == IF ~IsSome(it.a) THEN it
                  ELSE IF IsSome(ra.val) THEN [it EXCEPT !.a = Some(ra.it)]
                  ELSE [it EXCEPT !.a = None]
        evA == IF IsSome(it.a) THEN ra.ev ELSE << >>
        rb == next(Unwrap(it.b))
    IN IF IsSome(it.a) /\ IsSome(ra.val)
       THEN Ret(ra.val, afterA, evA)
       ELSE IF IsSome(it.b)
            THEN Ret(rb.val, [afterA EXCEPT !.b = Some(rb.it)], evA \o rb.ev)
            ELSE Ret(None, afterA, evA)

\* iter.take(n): Take { iter, n }
take_iter(it, n) == [kind |-> "take", iter |-> it, n |-> n]

\* A take that stops one element early.
take_next_short(it) ==
    IF it.n > 1
    THEN LET r == next(it.iter)
         IN Ret(r.val, [it EXCEPT !.iter = r.it, !.n = it.n - 1], r.ev)
    ELSE Ret(None, it, << >>)

\* Take::next: if n != 0 { n -= 1; iter.next() } else { None }
take_next(it) ==
    IF it.n # 0
    THEN LET r == next(it.iter)
         IN Ret(r.val, [it EXCEPT !.iter = r.it, !.n = it.n - 1], r.ev)
    ELSE Ret(None, it, << >>)

\* Iterator::nth (default): advance_by(n).ok()?; next()
nth(it, n) ==
    LET r == next(it)
    IN IF n = 0 THEN r
       ELSE IF ~IsSome(r.val) THEN r
       ELSE LET r2 == nth(r.it, n - 1)
            IN Ret(r2.val, r2.it, r.ev \o r2.ev)

\* iter.step_by(step): StepBy { iter, step_minus_one: step - 1, first_take: true }
step_by_iter(it, step) ==
    [kind |-> "step_by", iter |-> it, step_minus_one |-> step - 1, first_take |-> TRUE]

\* A step that also skips before the first element.
step_by_next_skipfirst(it) ==
    LET r == nth(it.iter, it.step_minus_one)
    IN Ret(r.val, [it EXCEPT !.iter = r.it, !.first_take = FALSE], r.ev)

\* StepBy::next: nth(if first_take { 0 } else { step_minus_one }); first_take = false
step_by_next(it) ==
    LET step_size == IF it.first_take THEN 0 ELSE it.step_minus_one
        r == nth(it.iter, step_size)
    IN Ret(r.val, [it EXCEPT !.iter = r.it, !.first_take = FALSE], r.ev)

\* iter::zip(a, b): Zip { a, b }
zip_iter(a, b) == [kind |-> "zip", a |-> a, b |-> b]

\* A zip that keeps pairing the first side with itself once the second ended.
zip_next_either(it) ==
    LET ra == next(it.a)
        rb == next(it.b)
    IN IF ~IsSome(ra.val) THEN Ret(None, [it EXCEPT !.a = ra.it], ra.ev)
       ELSE IF ~IsSome(rb.val)
            THEN Ret(Some(<< Unwrap(ra.val), Unwrap(ra.val) >>),
                     [it EXCEPT !.a = ra.it, !.b = rb.it], ra.ev \o rb.ev)
       ELSE Ret(Some(<< Unwrap(ra.val), Unwrap(rb.val) >>),
                [it EXCEPT !.a = ra.it, !.b = rb.it], ra.ev \o rb.ev)

\* Zip::next: let x = a.next()?; let y = b.next()?; Some((x, y))
zip_next(it) ==
    LET ra == next(it.a)
        rb == next(it.b)
    IN IF ~IsSome(ra.val) THEN Ret(None, [it EXCEPT !.a = ra.it], ra.ev)
       ELSE IF ~IsSome(rb.val)
            THEN Ret(None, [it EXCEPT !.a = ra.it, !.b = rb.it], ra.ev \o rb.ev)
       ELSE Ret(Some(<< Unwrap(ra.val), Unwrap(rb.val) >>),
                [it EXCEPT !.a = ra.it, !.b = rb.it], ra.ev \o rb.ev)

\* ------------------------------------------------- closures held by iterators
\* FnMut(Item) -> J closures for flat_map, J: IntoNonEmptyIterator.
FlatMapFns == {"rep", "once", "user"}
ApplyFlatMap(f, x) ==
    CASE f = "rep" -> repeat_n(x, 1 + (x % 2), "int")
      [] f = "once" -> once(x, "int")
      [] f = "user" -> UserIterable(IF x % 2 = 1 THEN << >> ELSE << x >>, once(x, "int"))

\* FnMut(Item) -> U closures for map.
MapFns == {"inc", "dbl"}
ApplyMap(f, x) ==
    CASE f = "inc" -> x + 1
      [] f = "dbl" -> 2 * x
      [] f \in FlatMapFns -> ApplyFlatMap(f, x)

\* FnMut() -> T closures for once_with / repeat_with: a closure is its captured state.
GenConst(v) == [name |-> "const", state |-> v]
GenCounter(v) == [name |-> "counter", state |-> v]
\* Calling the closure: the value returned and the closure afterwards.
CallGen(g) ==
    CASE g.name = "const" -> [val |-> g.state, g |-> g]
      [] g.name = "counter" -> [val |-> g.state, g |-> [g EXCEPT !.state = g.state + 1]]

\* FnMut(&T) -> Option<T> closures for successors.
SuccFns == {"none", "up", "same"}
ApplySucc(s, x) ==
    CASE s = "none" -> None
      [] s = "up" -> (IF x < MaxVal THEN Some(x + 1) ELSE None)
      [] s = "same" -> Some(x)

\* iter.map(f): Map { iter, f }
map_iter(it, f) == [kind |-> "map", iter |-> it, f |-> f]

\* Map::next: iter.next().map(f)
map_next(it) ==
    LET r == next(it.iter)
    IN IF IsSome(r.val)
       THEN Ret(Some(ApplyMap(it.f, Unwrap(r.val))), [it EXCEPT !.iter = r.it],
                r.ev \o << "call.map" >>)
       ELSE Ret(None, [it EXCEPT !.iter = r.it], r.ev)

\* iter.cloned() / iter.copied(): next().cloned(); a clone of a value is that value
cloned_iter(it) == [kind |-> "cloned", iter |-> it]
copied_iter(it) == [kind |-> "copied", iter |-> it]

cloned_next(it) ==
    LET r == next(it.iter)
    IN Ret(r.val, [it EXCEPT !.iter = r.it], r.ev)

\* iter.enumerate(): Enumerate { iter, count: 0 }
enumerate_iter(it) == [kind |-> "enumerate", iter |-> it, count |-> 0]

\* An enumerate that numbers from one.
enumerate_next_from_one(it) ==
    LET r == next(it.iter)
    IN IF IsSome(r.val)
       THEN Ret(Some(<< it.count + 1, Unwrap(r.val) >>),
                [it EXCEPT !.iter = r.it, !.count = it.count + 1], r.ev)
       ELSE Ret(None, [it EXCEPT !.iter = r.it], r.ev)

\* Enumerate::next: let a = iter.next()?; let i = count; count += 1; Some((i, a))
enumerate_next(it) ==
    LET r == next(it.iter)
    IN IF IsSome(r.val)
       THEN Ret(Some(<< it.count, Unwrap(r.val) >>),
                [it EXCEPT !.iter = r.it, !.count = it.count + 1], r.ev)
       ELSE Ret(None, [it EXCEPT !.iter = r.it], r.ev)

\* iter.inspect(f): Inspect { iter, f }; the closure is its captured state, the
\* list of the items it was called with (|x| seen.push(*x)).
inspect_iter(it) == [kind |-> "inspect", iter |-> it, seen |-> << >>]

\* Inspect::next: let next = iter.next(); if let Some(a) = &next { f(a) }; next
inspect_next(it) ==
    LET r == next(it.iter)
    IN IF IsSome(r.val)
       THEN Ret(r.val, [it EXCEPT !.iter = r.it, !.seen = Append(it.seen, Unwrap(r.val))],
                r.ev \o << "call.inspect" >>)
       ELSE Ret(r.val, [it EXCEPT !.iter = r.it], r.ev)

\* iter.fuse(): Fuse { iter: Some(iter) }
fuse_iter(it) == [kind |-> "fuse", iter |-> Some(it)]

\* A fuse that keeps asking its upstream after exhaustion.
fuse_next_through(it) ==
    LET r == next(Unwrap(it.iter))
    IN Ret(r.val, [it EXCEPT !.iter = Some(r.it)], r.ev)

\* Fuse::next: and_then_or_clear(&mut self.iter, Iterator::next)
fuse_next(it) ==
    IF ~IsSome(it.iter) THEN Ret(None, it, << >>)
    ELSE LET r == next(Unwrap(it.iter))
         IN IF IsSome(r.val)
            THEN Ret(r.val, [it EXCEPT !.iter = Some(r.it)], r.ev)
            ELSE Ret(None, [it EXCEPT !.iter = None], r.ev)

\* iter.rev(): Rev { iter }
rev_iter(it) == [kind |-> "rev", iter |-> it]

\* A rev that pulls from the front.
rev_next_forward(it) ==
    LET r == next(it.iter)
    IN Ret(r.val, [it EXCEPT !.iter = r.it], r.ev)

\* Rev::next: iter.next_back()
rev_next(it) ==
    LET r == next_back(it.iter)
    IN Ret(r.val, [it EXCEPT !.iter = r.it], r.ev)

\* iter.cycle(): Cycle { orig: iter.clone(), iter }
cycle_iter(it) == [kind |-> "cycle", orig |-> it, iter |-> it]

\* A cycle that does not start over.
cycle_next_once(it) ==
    LET r == next(it.iter)
    IN Ret(r.val, [it EXCEPT !.iter = r.it], r.ev)

\* Cycle::next: match iter.next() { None => { iter = orig.clone(); iter.next() } y => y }
cycle_next(it) ==
    LET r == next(it.iter)
        again == next(it.orig)
    IN IF IsSome(r.val)
       THEN Ret(r.val, [it EXCEPT !.iter = r.it], r.ev)
       ELSE Ret(again.val, [it EXCEPT !.iter = again.it], r.ev \o again.ev)

\* iter::repeat(item)
repeat_iter(item) == [kind |-> "repeat", element |-> item]

repeat_next(it) == Ret(Some(it.element), it, << >>)

\* iter::repeat_with(f)
repeat_with_iter(g) == [kind |-> "repeat_with", repeater |-> g]

\* RepeatWith::next: Some((self.repeater)())
repeat_with_next(it) ==
    LET c == CallGen(it.repeater)
    IN Ret(Some(c.val), [it EXCEPT !.repeater = c.g], << "call.gen" >>)

\* iter::once_with(f): OnceWith { make: Some(f) }
once_with_iter(g) == [kind |-> "once_with", make |-> Some(g)]

\* A once_with that does not take its closure out.
once_with_next_again(it) ==
    Ret(Some(CallGen(Unwrap(it.make)).val), it, << "call.gen" >>)

\* OnceWith::next: let f = self.make.take()?; Some(f())
once_with_next(it) ==
    IF ~IsSome(it.make) THEN Ret(None, it, << >>)
    ELSE Ret(Some(CallGen(Unwrap(it.make)).val), [it EXCEPT !.make = None], << "call.gen" >>)

\* iter::successors(first, succ): Successors { next: first, succ }
successors_iter(first, succ) == [kind |-> "successors", next |-> first, succ |-> succ]

\* A successors that yields the computed successor instead of the held item.
successors_next_computed(it) ==
    IF ~IsSome(it.next) THEN Ret(None, it, << >>)
    ELSE Ret(ApplySucc(it.succ, Unwrap(it.next)),
             [it EXCEPT !.next = ApplySucc(it.succ, Unwrap(it.next))], << "call.succ" >>)

\* Successors::next: let item = self.next.take()?; self.next = (self.succ)(&item); Some(item)
successors_next(it) ==
    IF ~IsSome(it.next) THEN Ret(None, it, << >>)
    ELSE Ret(it.next, [it EXCEPT !.next = ApplySucc(it.succ, Unwrap(it.next))],
             << "call.succ" >>)

\* iter.flatten(): FlattenCompat { iter: iter.fuse(), frontiter: None, backiter: None }
flatten_iter(it) ==
    [kind |-> "flatten", iter |-> fuse_iter(it), frontiter |-> None, backiter |-> None]

\* FlattenCompat::next:
\*   loop { if let elt @ Some(_) = and_then_or_clear(&mut frontiter, next) { return elt }
\*          match iter.next() { None => return and_then_or_clear(&mut backiter, next),
\*                              Some(inner) => frontiter = Some(inner.into_iter()) } }
RECURSIVE flatten_next(_)
\* A flatten that forgets the rest of a run once it has yielded from it.
flatten_next_drop_run(it) ==
    LET rf == next(Unwrap(it.frontiter))
        outer == next(it.iter)
        loop == flatten_next([it EXCEPT !.iter = outer.it,
                                        !.frontiter = Some(into_iter(Unwrap(outer.val)))])
    IN IF IsSome(it.frontiter) /\ IsSome(rf.val)
       THEN Ret(rf.val, [it EXCEPT !.frontiter = None], rf.ev)
       ELSE IF IsSome(outer.val)
            THEN Ret(loop.val, loop.it, outer.ev \o loop.ev)
            ELSE Ret(None, [it EXCEPT !.iter = outer.it, !.frontiter = None], outer.ev)

flatten_next(it) ==
    LET rf == next(Unwrap(it.frontiter))
        outer == next(it.iter)
        rb == next(Unwrap(it.backiter))
        loop == flatten_next([it EXCEPT !.iter = outer.it,
                                        !.frontiter = Some(into_iter(Unwrap(outer.val)))])
    IN IF IsSome(it.frontiter) /\ IsSome(rf.val)
       THEN Ret(rf.val, [it EXCEPT !.frontiter = Some(rf.it)], rf.ev)
       ELSE LET evF == IF IsSome(it.frontiter) THEN rf.ev ELSE << >>
            IN IF IsSome(outer.val)
               THEN Ret(loop.val, loop.it, evF \o outer.ev \o loop.ev)
               ELSE IF IsSome(it.backiter) /\ IsSome(rb.val)
                    THEN Ret(rb.val, [it EXCEPT !.iter = outer.it, !.frontiter = None,
                                                !.backiter = Some(rb.it)],
                             evF \o outer.ev \o rb.ev)
                    ELSE Ret(None, [it EXCEPT !.iter = outer.it, !.frontiter = None,
                                              !.backiter = None],
                             evF \o outer.ev)

\* ---------------------------------- ordinary adapters std returns unwrapped
\* FnMut(&Item) -> bool predicates.
PredFns == {"big", "never"}
ApplyPred(p, x) ==
    CASE p = "big" -> x > 1
      [] p = "never" -> FALSE

\* FnMut(Item) -> Option<T> functions.
OptFns == {"dec", "none"}
ApplyOpt(f, x) ==
    CASE f = "dec" -> (IF x > 1 THEN Some(x - 1) ELSE None)
      [] f = "none" -> None

\* FnMut(&mut S, Item) -> Option<T> for scan: *s += x; (*s <= MaxVal).then_some(*s)
ApplyScan(f, state, x) ==
    CASE f = "sum" ->
        [state |-> state + x,
         val |-> IF state + x <= MaxVal THEN Some(state + x) ELSE None]

\* Iterator::find: the first item the predicate accepts
RECURSIVE iter_find(_, _)
iter_find(it, p) ==
    LET pulled(r) ==
            IF ~IsSome(r.val) THEN r
            ELSE IF ApplyPred(p, Unwrap(r.val))
                 THEN Ret(r.val, r.it, r.ev \o << "call.pred" >>)
                 ELSE LET rec == iter_find(r.it, p)
                      IN Ret(rec.val, rec.it, r.ev \o << "call.pred" >> \o rec.ev)
    IN pulled(next(it))

\* Iterator::find_map: the first present result of the function
RECURSIVE iter_find_map(_, _)
iter_find_map(it, f) ==
    LET pulled(r) ==
            IF ~IsSome(r.val) THEN r
            ELSE IF IsSome(ApplyOpt(f, Unwrap(r.val)))
                 THEN Ret(ApplyOpt(f, Unwrap(r.val)), r.it, r.ev \o << "call.fn" >>)
                 ELSE LET rec == iter_find_map(r.it, f)
                      IN Ret(rec.val, rec.it, r.ev \o << "call.fn" >> \o rec.ev)
    IN pulled(next(it))

\* Iterator::position: the index of the first item the predicate accepts
RECURSIVE iter_position(_, _, _)
iter_position(it, p, i) ==
    LET pulled(r) ==
            IF ~IsSome(r.val) THEN r
            ELSE IF ApplyPred(p, Unwrap(r.val))
                 THEN Ret(Some(i), r.it, r.ev \o << "call.pred" >>)
                 ELSE LET rec == iter_position(r.it, p, i + 1)
                      IN Ret(rec.val, rec.it, r.ev \o << "call.pred" >> \o rec.ev)
    IN pulled(next(it))

\* Filter::next: iter.find(&mut predicate)
filter_next(it) ==
    LET r == iter_find(it.iter, it.predicate)
    IN Ret(r.val, [it EXCEPT !.iter = r.it], r.ev)

\* FilterMap::next: iter.find_map(&mut f)
filter_map_next(it) ==
    LET r == iter_find_map(it.iter, it.f)
    IN Ret(r.val, [it EXCEPT !.iter = r.it], r.ev)

\* A skip that does not skip.
skip_next_nothing(it) ==
    LET r == next(it.iter)
    IN Ret(r.val, [it EXCEPT !.iter = r.it], r.ev)

\* Skip::next: if n > 0 { iter.nth(take(&mut n)) } else { iter.next() }
skip_next(it) ==
    IF it.n > 0
    THEN LET r == nth(it.iter, it.n)
         IN Ret(r.val, [it EXCEPT !.iter = r.it, !.n = 0], r.ev)
    ELSE LET r == next(it.iter)
         IN Ret(r.val, [it EXCEPT !.iter = r.it], r.ev)

\* SkipWhile::next: iter.find(|x| if flag || !pred(x) { flag = true; true } else { false })
RECURSIVE skip_while_next(_)
skip_while_next(it) ==
    LET r == next(it.iter)
        rec == skip_while_next([it EXCEPT !.iter = r.it])
    IN IF ~IsSome(r.val) \/ it.flag THEN Ret(r.val, [it EXCEPT !.iter = r.it], r.ev)
       ELSE IF ~ApplyPred(it.predicate, Unwrap(r.val))
            THEN Ret(r.val, [it EXCEPT !.iter = r.it, !.flag = TRUE],
                     r.ev \o << "call.pred" >>)
            ELSE Ret(rec.val, rec.it, r.ev \o << "call.pred" >> \o rec.ev)

\* TakeWhile::next: if flag { None } else { let x = iter.next()?;
\*   if pred(&x) { Some(x) } else { flag = true; None } }
take_while_next(it) ==
    LET r == next(it.iter)
    IN IF it.flag THEN Ret(None, it, << >>)
       ELSE IF ~IsSome(r.val) THEN Ret(None, [it EXCEPT !.iter = r.it], r.ev)
       ELSE IF ApplyPred(it.predicate, Unwrap(r.val))
            THEN Ret(r.val, [it EXCEPT !.iter = r.it], r.ev \o << "call.pred" >>)
            ELSE Ret(None, [it EXCEPT !.iter = r.it, !.flag = TRUE],
                     r.ev \o << "call.pred" >>)

\* MapWhile::next: let x = iter.next()?; (predicate)(x)
map_while_next(it) ==
    LET r == next(it.iter)
    IN IF ~IsSome(r.val) THEN Ret(None, [it EXCEPT !.iter = r.it], r.ev)
       ELSE Ret(ApplyOpt(it.predicate, Unwrap(r.val)), [it EXCEPT !.iter = r.it],
                r.ev \o << "call.fn" >>)

\* Scan::next: let a = iter.next()?; (f)(&mut state, a)
scan_next(it) ==
    LET r == next(it.iter)
        a == ApplyScan(it.f, it.state, Unwrap(r.val))
    IN IF ~IsSome(r.val) THEN Ret(None, [it EXCEPT !.iter = r.it], r.ev)
       ELSE Ret(a.val, [it EXCEPT !.iter = r.it, !.state = a.state],
                r.ev \o << "call.fn" >>)

\* ----------------------------------------------- DoubleEndedIterator::next_back
vec_next_back(it) ==
    IF it.items = << >>
    THEN Ret(None, it, << "pull." \o it.tag >>)
    ELSE Ret(Some(it.items[Len(it.items)]),
             [it EXCEPT !.items = SubSeq(it.items, 1, Len(it.items) - 1)],
             << "pull." \o it.tag >>)

\* Peekable::next_back: match peeked.as_mut() {
\*   Some(None) => None, Some(v @ Some(_)) => iter.next_back().or_else(|| v.take()),
\*   None => iter.next_back() }
peekable_next_back(p) ==
    LET r == next_back(p.iter)
    IN IF ~IsSome(p.peeked) THEN Ret(r.val, [p EXCEPT !.iter = r.it], r.ev)
       ELSE IF ~IsSome(Unwrap(p.peeked)) THEN Ret(None, p, << >>)
       ELSE IF IsSome(r.val) THEN Ret(r.val, [p EXCEPT !.iter = r.it], r.ev)
       ELSE Ret(Unwrap(p.peeked), [p EXCEPT !.iter = r.it, !.peeked = Some(None)], r.ev)

\* Chain::next_back: and_then_or_clear(&mut b, next_back).or_else(|| a.as_mut()?.next_back())
chain_next_back(it) ==
    LET rb == next_back(Unwrap(it.b))
        afterB == IF ~IsSome(it.b) THEN it
                  ELSE IF IsSome(rb.val) THEN [it EXCEPT !.b = Some(rb.it)]
                  ELSE [it EXCEPT !.b = None]
        evB == IF IsSome(it.b) THEN rb.ev ELSE << >>
        ra == next_back(Unwrap(it.a))
    IN IF IsSome(it.b) /\ IsSome(rb.val)
       THEN Ret(rb.val, afterB, evB)
       ELSE IF IsSome(it.a)
            THEN Ret(ra.val, [afterB EXCEPT !.a = Some(ra.it)], evB \o ra.ev)
            ELSE Ret(None, afterB, evB)

map_next_back(it) ==
    LET r == next_back(it.iter)
    IN IF IsSome(r.val)
       THEN Ret(Some(ApplyMap(it.f, Unwrap(r.val))), [it EXCEPT !.iter = r.it],
                r.ev \o << "call.map" >>)
       ELSE Ret(None, [it EXCEPT !.iter = r.it], r.ev)

cloned_next_back(it) ==
    LET r == next_back(it.iter)
    IN Ret(r.val, [it EXCEPT !.iter = r.it], r.ev)

inspect_next_back(it) ==
    LET r == next_back(it.iter)
    IN IF IsSome(r.val)
       THEN Ret(r.val, [it EXCEPT !.iter = r.it, !.seen = Append(it.seen, Unwrap(r.val))],
                r.ev \o << "call.inspect" >>)
       ELSE Ret(r.val, [it EXCEPT !.iter = r.it], r.ev)

fuse_next_back(it) ==
    IF ~IsSome(it.iter) THEN Ret(None, it, << >>)
    ELSE LET r == next_back(Unwrap(it.iter))
         IN IF IsSome(r.val)
            THEN Ret(r.val, [it EXCEPT !.iter = Some(r.it)], r.ev)
            ELSE Ret(None, [it EXCEPT !.iter = None], r.ev)

\* Rev::next_back: iter.next()
rev_next_back(it) ==
    LET r == next(it.iter)
    IN Ret(r.val, [it EXCEPT !.iter = r.it], r.ev)

next_back(it) ==
    CASE it.kind = "vec" -> vec_next_back(it)
      [] it.kind = "peekable" -> peekable_next_back(it)
      [] it.kind = "once" -> once_next(it)
      [] it.kind = "once_with" -> once_with_next(it)
      [] it.kind = "repeat_n" -> repeat_n_next(it)
      [] it.kind = "repeat" -> repeat_next(it)
      [] it.kind = "chain" -> chain_next_back(it)
      [] it.kind = "map" -> map_next_back(it)
      [] it.kind \in {"cloned", "copied"} -> cloned_next_back(it)
      [] it.kind = "inspect" -> inspect_next_back(it)
      [] it.kind = "fuse" -> fuse_next_back(it)
      [] it.kind = "rev" -> rev_next_back(it)

\* Whether the iterator type implements DoubleEndedIterator (the types whose
\* reverse pull is modelled above).
RECURSIVE DoubleEnded(_)
DoubleEnded(it) ==
    CASE it.kind \in {"vec", "once", "once_with", "repeat_n", "repeat"} -> TRUE
      [] it.kind \in {"peekable", "map", "cloned", "copied", "inspect", "rev"} ->
            DoubleEnded(it.iter)
      [] it.kind = "fuse" -> IsSome(it.iter) /\ DoubleEnded(Unwrap(it.iter))
      [] it.kind = "chain" ->
            /\ IsSome(it.a) /\ IsSome(it.b)
            /\ DoubleEnded(Unwrap(it.a)) /\ DoubleEnded(Unwrap(it.b))
      [] OTHER -> FALSE


\* Iterator::next, dispatched on the iterator type.
next(it) ==
    CASE it.kind = "vec" -> vec_next(it)
      [] it.kind = "resuming" -> resuming_next(it)
      [] it.kind = "peekable" -> peekable_next(it)
      [] it.kind = "once" -> once_next(it)
      [] it.kind = "repeat_n" -> repeat_n_next(it)
      [] it.kind = "chain" -> chain_next(it)
      [] it.kind = "take" -> take_next(it)
      [] it.kind = "step_by" -> step_by_next(it)
      [] it.kind = "zip" -> zip_next(it)
      [] it.kind = "map" -> map_next(it)
      [] it.kind \in {"cloned", "copied"} -> cloned_next(it)
      [] it.kind = "enumerate" -> enumerate_next(it)
      [] it.kind = "inspect" -> inspect_next(it)
      [] it.kind = "fuse" -> fuse_next(it)
      [] it.kind = "rev" -> rev_next(it)
      [] it.kind = "cycle" -> cycle_next(it)
      [] it.kind = "repeat" -> repeat_next(it)
      [] it.kind = "repeat_with" -> repeat_with_next(it)
      [] it.kind = "once_with" -> once_with_next(it)
      [] it.kind = "successors" -> successors_next(it)
      [] it.kind = "flatten" -> flatten_next(it)
      [] it.kind = "filter" -> filter_next(it)
      [] it.kind = "filter_map" -> filter_map_next(it)
      [] it.kind = "skip" -> skip_next(it)
      [] it.kind = "skip_while" -> skip_while_next(it)
      [] it.kind = "take_while" -> take_while_next(it)
      [] it.kind = "map_while" -> map_while_next(it)
      [] it.kind = "scan" -> scan_next(it)

\* Runs the iterator to exhaustion, at most fuel pulls.
RECURSIVE drain(_, _)
drain(it, fuel) ==
    IF fuel = 0
    THEN [items |-> << >>, ended |-> FALSE, it |-> it, ev |-> << >>]
    ELSE LET pulled(r) ==
                 IF ~IsSome(r.val)
                 THEN [items |-> << >>, ended |-> TRUE, it |-> r.it, ev |-> r.ev]
                 ELSE LET d == drain(r.it, fuel - 1)
                      IN [items |-> << Unwrap(r.val) >> \o d.items, ended |-> d.ended,
                          it |-> d.it, ev |-> r.ev \o d.ev]
         IN pulled(next(it))

\* impl<I: NonEmptyIterator> IntoNonEmptyIterator for I: the identity
into_non_empty_iter(x) == x

\* NonEmptyIterator::take
take(self, n) == Take_new(self, n)

\* NonEmptyIterator::step_by
step_by(self, step) == StepBy_new(self, step)

\* A zip function that pairs the second argument first.
zip_swapped(first, second) ==
    Zip_new(into_non_empty_iter(second), into_non_empty_iter(first))

\* zip(first, second), the free function
zip(first, second) == Zip_new(into_non_empty_iter(first), into_non_empty_iter(second))

\* NonEmptyIterator::zip
zip_method(self, other) == Zip_new(self, into_non_empty_iter(other))

\* NonEmptyIterator::chain
chain_method(self, other) == Chain_new(self, other)

\* chain(non_empty, maybe_empty), the free function
chain(non_empty, maybe_empty) == Chain_new(into_non_empty_iter(non_empty), maybe_empty)

\* IntoIterator::into_iter of every wrapper type
into_iter(w) ==
    CASE w.kind = "NonEmptyAdapter" -> w.iterable
      [] w.kind = "Once" -> once_iter(w.value)
      [] w.kind = "RepeatN" -> repeat_n_iter(w.item, w.count)
      [] w.kind = "Peeked" -> chain_iter(once_iter(w.item), w.rest)
      [] w.kind = "Take" -> take_iter(into_iter(w.non_empty), w.count)
      [] w.kind = "StepBy" -> step_by_iter(into_iter(w.non_empty), w.step)
      [] w.kind = "Zip" -> zip_iter(into_iter(w.first), into_iter(w.second))
      [] w.kind = "Chain" -> chain_iter(into_iter(w.non_empty), w.maybe_empty)
      [] w.kind = "Map" -> map_iter(into_iter(w.non_empty), w.function)
      [] w.kind = "Cloned" -> cloned_iter(into_iter(w.non_empty))
      [] w.kind = "Copied" -> copied_iter(into_iter(w.non_empty))
      [] w.kind = "Enumerate" -> enumerate_iter(into_iter(w.non_empty))
      [] w.kind = "Inspect" -> inspect_iter(into_iter(w.non_empty))
      [] w.kind = "Fuse" -> fuse_iter(into_iter(w.non_empty))
      [] w.kind = "Rev" -> rev_iter(into_iter(w.non_empty))
      [] w.kind = "Cycle" -> cycle_iter(into_iter(w.non_empty))
      [] w.kind = "Flatten" -> flatten_iter(into_iter(w.non_empty))
      [] w.kind = "FlatMap" -> flatten_iter(map_iter(into_iter(w.non_empty), w.function))
      [] w.kind = "Repeat" -> repeat_iter(w.item)
      [] w.kind = "RepeatWith" -> repeat_with_iter(w.function)
      [] w.kind = "OnceWith" -> once_with_iter(w.function)
      [] w.kind = "Successors" -> successors_iter(Some(w.initial), w.successor)
      [] w.kind = "User" -> VecIter(w.items, "u")

SourceKinds ==
    {"NonEmptyAdapter", "Once", "RepeatN", "Peeked", "Repeat", "RepeatWith", "OnceWith",
     "Successors"}

\* The item type of a wrapper (the Item associated type).
RECURSIVE ItemTy(_)
ItemTy(w) ==
    CASE w.kind \in SourceKinds -> w.T
      [] w.kind \in {"Take", "StepBy", "Chain", "Inspect", "Fuse", "Rev", "Cycle",
                     "Cloned", "Copied"} -> ItemTy(w.non_empty)
      [] w.kind \in {"Zip", "Enumerate"} -> "pair"
      [] w.kind \in {"Map", "Flatten", "FlatMap"} -> "int"

\* TryIntoNonEmptyIterator::try_into_non_empty_iter that looks at one producer
\* and wraps the original afresh.
try_into_non_empty_iter_refetched(items, tag) ==
    LET peeked == peek(peekable(VecIter(items, tag)))
    IN IF ~IsSome(peeked.val)
       THEN [val |-> None, ev |-> peeked.ev]
       ELSE [val |-> Some(NonEmptyAdapter_new(peekable(VecIter(items, tag)), "int")),
             ev |-> peeked.ev]

\* TryIntoNonEmptyIterator::try_into_non_empty_iter that wraps before looking.
try_into_non_empty_iter_unchecked(items, tag) ==
    LET peeked == peek(peekable(VecIter(items, tag)))
    IN [val |-> Some(NonEmptyAdapter_new(peeked.it, "int")), ev |-> peeked.ev]

\* TryIntoNonEmptyIterator::try_into_non_empty_iter:
\*   let mut peekable = self.into_iter().peekable(); peekable.peek()?;
\*   Some(unsafe { NonEmptyAdapter::new(peekable) })
try_into_non_empty_iter(items, tag) ==
    LET peeked == peek(peekable(VecIter(items, tag)))
    IN IF ~IsSome(peeked.val)
       THEN [val |-> None, ev |-> peeked.ev]
       ELSE [val |-> Some(NonEmptyAdapter_new(peeked.it, "int")), ev |-> peeked.ev]

\* ------------------------------------------------- closures handed by callers
\* Ord::cmp and a caller's reversed comparison.
Compare(c, x, y) ==
    CASE c = "cmp" -> (IF x < y THEN "Less" ELSE IF x = y THEN "Equal" ELSE "Greater")
      [] c = "rev" -> (IF x > y THEN "Less" ELSE IF x = y THEN "Equal" ELSE "Greater")
CompareFns == {"cmp", "rev"}

\* Key functions for max_by_key / min_by_key.
Key(k, x) ==
    CASE k = "id" -> x
      [] k = "parity" -> x % 2
      [] k = "const" -> 0
KeyFns == {"id", "parity", "const"}

\* Combining functions for reduce, and the selection closures std builds for
\* max_by (Greater => x, _ => y) and min_by (Greater => y, _ => x).
Apply2(f, x, y) ==
    CASE f[1] = "add" -> x + y
      [] f[1] = "left" -> x
      [] f[1] = "right" -> y
      [] f[1] = "count" -> x + 1
      [] f[1] = "some" -> Some(y)
      [] f[1] = "max_by" -> (IF Compare(f[2], x, y) = "Greater" THEN x ELSE y)
      [] f[1] = "min_by" -> (IF Compare(f[2], x, y) = "Greater" THEN y ELSE x)
      [] f[1] = "max_by_key" ->
            (IF Compare("cmp", Key(f[2], x), Key(f[2], y)) = "Greater" THEN x ELSE y)
      [] f[1] = "min_by_key" ->
            (IF Compare("cmp", Key(f[2], x), Key(f[2], y)) = "Greater" THEN y ELSE x)
ReduceFns == { << "add" >>, << "left" >>, << "right" >> }

\* ------------------------------------------- consuming methods of Iterator
\* Iterator::fold(init, f): the accumulator, the number of calls of f, and
\* whether the loop saw the end within fuel pulls.
RECURSIVE fold(_, _, _, _)
fold(it, init, f, fuel) ==
    IF fuel = 0 THEN [acc |-> init, calls |-> 0, ended |-> FALSE, ev |-> << >>]
    ELSE LET pulled(r) ==
                 IF ~IsSome(r.val)
                 THEN [acc |-> init, calls |-> 0, ended |-> TRUE, ev |-> r.ev]
                 ELSE LET rec == fold(r.it, Apply2(f, init, Unwrap(r.val)), f, fuel - 1)
                      IN [acc |-> rec.acc, calls |-> 1 + rec.calls, ended |-> rec.ended,
                          ev |-> r.ev \o rec.ev]
         IN pulled(next(it))

\* A reduce that starts from a default accumulator instead of the first item.
iter_reduce_seeded(it, f, fuel) ==
    LET rec == fold(it, 0, f, fuel)
    IN [val |-> IF rec.calls = 0 THEN None ELSE Some(rec.acc), calls |-> rec.calls,
        ended |-> rec.ended, ev |-> rec.ev]

\* Iterator::reduce(f): let first = self.next()?; Some(self.fold(first, f))
iter_reduce(it, f, fuel) ==
    LET folded(first, rec) ==
            [val |-> Some(rec.acc), calls |-> rec.calls, ended |-> rec.ended,
             ev |-> first.ev \o rec.ev]
        pulled(first) ==
            IF ~IsSome(first.val)
            THEN [val |-> None, calls |-> 0, ended |-> TRUE, ev |-> first.ev]
            ELSE folded(first, fold(first.it, Unwrap(first.val), f, fuel))
    IN pulled(next(it))

\* A count that starts from the accumulator of an empty sum minus one.
iter_count_less_one(it, fuel) ==
    LET rec == fold(it, 0, << "count" >>, fuel)
    IN [val |-> IF rec.acc = 0 THEN 0 ELSE rec.acc - 1, ended |-> rec.ended, ev |-> rec.ev]

\* Iterator::count: fold(0, |count, _| count + 1)
iter_count(it, fuel) ==
    LET counted(rec) == [val |-> rec.acc, ended |-> rec.ended, ev |-> rec.ev]
    IN counted(fold(it, 0, << "count" >>, fuel))

\* Iterator::last: fold(None, |_, x| Some(x))
iter_last(it, fuel) ==
    LET found(rec) == [val |-> rec.acc, ended |-> rec.ended, ev |-> rec.ev]
    IN found(fold(it, None, << "some" >>, fuel))

\* unwrap_unchecked of an Option: the value when present; undefined behaviour
\* on None, where the build may hand back anything.
Garbage(T) ==
    CASE T = "int" -> 0..MaxVal
      [] T = "pair" -> { << 0, 0 >> }
      [] T = "ne" -> { once(0, "int") }

unwrap_unchecked(o, T) ==
    IF IsSome(o)
    THEN { [ub |-> FALSE, val |-> Unwrap(o)] }
    ELSE { [ub |-> TRUE, val |-> v] : v \in Garbage(T) }

\* Size::new_unchecked(count): undefined behaviour on 0.
Size_new_unchecked(n) ==
    IF n # 0
    THEN { [ub |-> FALSE, val |-> n] }
    ELSE { [ub |-> TRUE, val |-> v] : v \in 0..1 }

\* ------------------------------------- derived methods of NonEmptyIterator
\* A consume that throws the first item away and hands out the second.
consume_second(self) ==
    LET iterator == into_iter(self)
        skipped == next(iterator)
        r == next(skipped.it)
    IN { [item |-> o.val, ub |-> o.ub, rest |-> r.it, ev |-> skipped.ev \o r.ev] :
         o \in unwrap_unchecked(r.val, ItemTy(self)) }

\* NonEmptyIterator::consume: the outcomes of
\*   let mut iterator = self.into_iter();
\*   let item = unsafe { iterator.next().unwrap_unchecked() }; (item, iterator)
consume(self) ==
    LET iterator == into_iter(self)
        pulled(r) ==
            { [item |-> o.val, ub |-> o.ub, rest |-> r.it, ev |-> r.ev] :
              o \in unwrap_unchecked(r.val, ItemTy(self)) }
    IN pulled(next(iterator))

\* Peeked::peek: &self.item
Peeked_peek(self) == self.item

\* A peek_mut whose write also discards the rest.
Peeked_peek_mut_clears(self, v) == [self EXCEPT !.item = v, !.rest = VecIter(<< >>, "a")]

\* Peeked::peek_mut: &mut self.item, through which the caller writes v
Peeked_peek_mut(self, v) == [self EXCEPT !.item = v]

\* Peeked::get: (self.item, self.rest)
Peeked_get(self) == [item |-> self.item, rest |-> self.rest]

\* A peeked that wraps the first item with the producer it came from.
peeked_rewrapped(self) ==
    { [val |-> Peeked_new(c.item, into_iter(self), ItemTy(self)), ub |-> c.ub, ev |-> c.ev] :
      c \in consume(self) }

\* A nth that counts from one.
nth_method_from_one(self, n) == nth(into_iter(self), n - 1)

\* NonEmptyIterator::nth: self.into_iter().nth(n.get())
nth_method(self, n) == nth(into_iter(self), n)

\* NonEmptyIterator::peeked: let (item, rest) = self.consume(); Peeked::new(item, rest)
peeked(self) ==
    { [val |-> Peeked_new(c.item, c.rest, ItemTy(self)), ub |-> c.ub, ev |-> c.ev] :
      c \in consume(self) }

\* NonEmptyIterator::count
count(self, fuel) ==
    LET sized(c) ==
            { [val |-> o.val, ub |-> o.ub, calls |-> 0, ended |-> c.ended, ev |-> c.ev] :
              o \in Size_new_unchecked(c.val) }
    IN sized(iter_count(into_iter(self), fuel))

\* NonEmptyIterator::reduce, and max / max_by / max_by_key / min / min_by /
\* min_by_key, which std computes as a reduce with a selecting closure.
reduce(self, f, fuel) ==
    LET unwrapped(output) ==
            { [val |-> o.val, ub |-> o.ub, calls |-> output.calls, ended |-> output.ended,
               ev |-> output.ev] : o \in unwrap_unchecked(output.val, ItemTy(self)) }
    IN unwrapped(iter_reduce(into_iter(self), f, fuel))

max(self, fuel) == reduce(self, << "max_by", "cmp" >>, fuel)
max_by(self, c, fuel) == reduce(self, << "max_by", c >>, fuel)
max_by_key(self, k, fuel) == reduce(self, << "max_by_key", k >>, fuel)
min(self, fuel) == reduce(self, << "min_by", "cmp" >>, fuel)
min_by(self, c, fuel) == reduce(self, << "min_by", c >>, fuel)
min_by_key(self, k, fuel) == reduce(self, << "min_by_key", k >>, fuel)

\* NonEmptyIterator::last
last(self, fuel) ==
    LET unwrapped(l) ==
            { [val |-> o.val, ub |-> o.ub, calls |-> 0, ended |-> l.ended, ev |-> l.ev] :
              o \in unwrap_unchecked(l.val, ItemTy(self)) }
    IN unwrapped(iter_last(into_iter(self), fuel))

\* A fold that gives up after one item.
fold_method_once(self, initial, f, fuel) ==
    LET folded(rec) ==
            { [val |-> rec.acc, ub |-> FALSE, calls |-> rec.calls, ended |-> rec.ended,
               ev |-> rec.ev] }
    IN folded(fold(into_iter(self), initial, f, 1))

\* NonEmptyIterator::fold: self.into_iter().fold(initial, function)
fold_method(self, initial, f, fuel) ==
    LET folded(rec) ==
            { [val |-> rec.acc, ub |-> FALSE, calls |-> rec.calls, ended |-> rec.ended,
               ev |-> rec.ev] }
    IN folded(fold(into_iter(self), initial, f, fuel))

\* The collection types built in the model: Vec keeps order and repeats,
\* BTreeSet keeps the distinct elements.
Collections == {"Vec", "BTreeSet"}

\* FromIterator::from_iter of the collection type over a drained iterator
from_iter(items, C) ==
    CASE C = "Vec" -> items
      [] C = "BTreeSet" -> { items[i] : i \in 1..Len(items) }

\* A from_non_empty_iter that takes the first item off before building.
from_non_empty_iter_rest(iterable, C, fuel) ==
    LET built(d) ==
            { [val |-> from_iter(d.items, C), ub |-> FALSE, calls |-> 0,
               ended |-> d.ended, ev |-> d.ev] }
    IN built(drain(next(into_iter(into_non_empty_iter(iterable))).it, fuel))

\* impl<T, C: FromIterator<T>> FromNonEmptyIterator<T> for C:
\* iterable.into_non_empty_iter().into_iter().collect()
from_non_empty_iter(iterable, C, fuel) ==
    LET built(d) ==
            { [val |-> from_iter(d.items, C), ub |-> FALSE, calls |-> 0,
               ended |-> d.ended, ev |-> d.ev] }
    IN built(drain(into_iter(into_non_empty_iter(iterable)), fuel))

\* NonEmptyIterator::collect: C::from_non_empty_iter(self)
collect(self, C, fuel) == from_non_empty_iter(self, C, fuel)

\* ------------------------------------------------------------------ state
VARIABLES
    pc,      \* "start", "built" (a wrapper exists), "absent", "iter" (downgraded),
             \* "draining" (inside the loop of exhaust), "done"
    w,       \* the wrapper value built so far
    depth,   \* number of calls made on the source of w and the wrappers built from it
    call,    \* the constructor or adapter call that built w, with its arguments
    it,      \* the ordinary iterator w was downgraded to
    out,     \* the elements pulled from it up to its first exhaustion signal
    late,    \* the elements pulled from it after it had signalled exhaustion
    ended,   \* it has signalled exhaustion
    pulls,   \* number of pulls made on it
    res,     \* the result of the consuming operation applied to w
    log      \* pulls of original producers and closure calls, in order

vars == << pc, w, depth, call, it, out, late, ended, pulls, res, log >>

Fuel == MaxPulls + 1

\* The elements a wrapper yields once downgraded.
Elems(x) == drain(into_iter(x), Fuel)

\* Lists whose elements strictly increase: one list of each length and content.
Increasing(l) == \A i \in 1..(Len(l) - 1) : l[i] < l[i + 1]

\* Second operands for chain: possibly-empty producers of every length.
ChainOthers == { l \in Lists : Increasing(l) }

\* Second operands for zip: non-empty producers of every length.
Others ==
    { Unwrap(try_into_non_empty_iter(l, "b").val) : l \in ChainOthers \ { << >> } }

\* Items that are themselves convertible to non-empty iterators: wrappers, and
\* callers' types with their own IntoIterator.
NeItems ==
    { once(1, "int"),
      Unwrap(try_into_non_empty_iter(<< 1, 2 >>, "c").val),
      UserIterable(<< 2 >>, once(2, "int")),
      UserIterable(<< >>, once(1, "int")) }

Init ==
    /\ pc = "start"
    /\ w = NoWrapper
    /\ depth = 0
    /\ call = [op |-> "none"]
    /\ it = NoIter
    /\ out = << >>
    /\ late = << >>
    /\ ended = FALSE
    /\ pulls = 0
    /\ res = [op |-> "none"]
    /\ log = << >>

Source(wrapper, c) ==
    /\ pc = "start"
    /\ w' = wrapper
    /\ call' = c
    /\ pc' = "built"
    /\ UNCHANGED << depth, it, out, late, ended, pulls, res, log >>

\* An adapter constructor that pulls its first element when it is built.
Adapter_eager(wrapper, c) ==
    /\ pc = "built"
    /\ depth < MaxDepth
    /\ w' = wrapper
    /\ call' = c
    /\ depth' = depth + 1
    /\ log' = log \o next(into_iter(wrapper)).ev
    /\ UNCHANGED << pc, it, out, late, ended, pulls, res >>

Adapter(wrapper, c) ==
    /\ pc = "built"
    /\ depth < MaxDepth
    /\ w' = wrapper
    /\ call' = c
    /\ depth' = depth + 1
    /\ UNCHANGED << pc, it, out, late, ended, pulls, res, log >>

\* ----------------------------------------------------------- constructors
TryIntoNonEmptyIter ==
    \E l \in Lists :
        LET r == try_into_non_empty_iter(l, "a")
        IN /\ pc = "start"
           /\ log' = log \o r.ev
           /\ call' = [op |-> "try_into_non_empty_iter", self |-> l, result |-> r.val]
           /\ IF IsSome(r.val)
              THEN w' = Unwrap(r.val) /\ pc' = "built"
              ELSE w' = NoWrapper /\ pc' = "absent"
           /\ UNCHANGED << depth, it, out, late, ended, pulls, res >>

OnceCall ==
    \/ \E v \in Vals : Source(once(v, "int"), [op |-> "once", value |-> v])
    \/ \E v \in NeItems : Source(once(v, "ne"), [op |-> "once", value |-> v])

OnceWithCall ==
    \E v \in Vals : Source(once_with(GenConst(v)), [op |-> "once_with", function |-> GenConst(v)])

RepeatCall ==
    \E v \in Vals : Source(repeat(v), [op |-> "repeat", item |-> v])

RepeatWithCall ==
    \E g \in { GenConst(1), GenCounter(1) } :
        Source(repeat_with(g), [op |-> "repeat_with", function |-> g])

RepeatNCall ==
    \/ \E v \in Vals, n \in Counts :
        Source(repeat_n(v, n, "int"), [op |-> "repeat_n", item |-> v, count |-> n])
    \/ \E v \in NeItems, n \in Counts :
        Source(repeat_n(v, n, "ne"), [op |-> "repeat_n", item |-> v, count |-> n])

SuccessorsCall ==
    \E v \in Vals, s \in SuccFns :
        Source(successors(v, s), [op |-> "successors", initial |-> v, successor |-> s])

PeekedNew ==
    \/ \E v \in Vals, l \in { x \in Lists : Len(x) < MaxLen } :
        Source(Peeked_new(v, VecIter(l, "a"), "int"),
               [op |-> "Peeked_new", item |-> v, rest |-> l])
    \/ Source(Peeked_new(1, Resuming(<< >>, << 2 >>, "a"), "int"),
              [op |-> "Peeked_new", item |-> 1, rest |-> << >>, again |-> << 2 >>])

\* --------------------------------------------------------------- adapters
TakeCall ==
    \E n \in Counts : Adapter(take(w, n), [op |-> "take", self |-> w, count |-> n])

StepByCall ==
    \E n \in Counts : Adapter(step_by(w, n), [op |-> "step_by", self |-> w, step |-> n])

ZipCall ==
    \E o \in Others : Adapter(zip_method(w, o), [op |-> "zip", first |-> w, second |-> o])

ZipFnCall ==
    \E o \in Others : Adapter(zip(w, o), [op |-> "zip_fn", first |-> w, second |-> o])

ChainCall ==
    \E l \in ChainOthers :
        /\ pc = "built" /\ ItemTy(w) = "int"
        /\ Adapter(chain_method(w, VecIter(l, "b")), [op |-> "chain", self |-> w, other |-> l])

ChainFnCall ==
    \E l \in ChainOthers :
        /\ pc = "built" /\ ItemTy(w) = "int"
        /\ Adapter(chain(w, VecIter(l, "b")), [op |-> "chain_fn", self |-> w, other |-> l])

MapCall ==
    \E f \in MapFns :
        /\ pc = "built" /\ ItemTy(w) = "int"
        /\ Adapter(Map_new(w, f), [op |-> "map", self |-> w, function |-> f])

ClonedCall ==
    /\ pc = "built" /\ ItemTy(w) = "int"
    /\ Adapter(Cloned_new(w), [op |-> "cloned", self |-> w])

CopiedCall ==
    /\ pc = "built" /\ ItemTy(w) = "int"
    /\ Adapter(Copied_new(w), [op |-> "copied", self |-> w])

EnumerateCall == Adapter(Enumerate_new(w), [op |-> "enumerate", self |-> w])

InspectCall == Adapter(Inspect_new(w), [op |-> "inspect", self |-> w])

FuseCall == Adapter(Fuse_new(w), [op |-> "fuse", self |-> w])

RevCall ==
    /\ pc = "built" /\ DoubleEnded(into_iter(w))
    /\ Adapter(Rev_new(w), [op |-> "rev", self |-> w])

CycleCall ==
    /\ pc = "built" /\ ItemTy(w) # "ne"
    /\ Adapter(Cycle_new(w), [op |-> "cycle", self |-> w])

FlattenCall ==
    /\ pc = "built" /\ ItemTy(w) = "ne"
    /\ Adapter(Flatten_new(w), [op |-> "flatten", self |-> w])

\* Over an endless producer only closures whose runs are never empty are drawn:
\* a pull that meets empty runs forever does not return.
FlatMapCall ==
    \E f \in FlatMapFns :
        /\ pc = "built" /\ ItemTy(w) = "int"
        /\ f = "user" => Elems(w).ended
        /\ Adapter(FlatMap_new(w, f), [op |-> "flat_map", self |-> w, function |-> f])

\* peeked() pulls the first item when it is called.
PeekedCall ==
    /\ pc = "built"
    /\ depth < MaxDepth
    /\ \E p \in peeked(w) :
        /\ w' = p.val
        /\ call' = [op |-> "peeked", self |-> w, ub |-> p.ub]
        /\ log' = log \o p.ev
    /\ depth' = depth + 1
    /\ UNCHANGED << pc, it, out, late, ended, pulls, res >>

\* ---------------------------------------- operations by reference on Peeked
PeekCall ==
    /\ pc = "built" /\ w.kind = "Peeked"
    /\ depth < MaxDepth
    /\ call' = [op |-> "peek", self |-> w, result |-> Peeked_peek(w)]
    /\ depth' = depth + 1
    /\ UNCHANGED << pc, w, it, out, late, ended, pulls, res, log >>

PeekMutCall ==
    \E v \in Vals :
        /\ pc = "built" /\ w.kind = "Peeked" /\ ItemTy(w) = "int"
        /\ depth < MaxDepth
        /\ w' = Peeked_peek_mut(w, v)
        /\ call' = [op |-> "peek_mut", self |-> w, value |-> v]
        /\ depth' = depth + 1
        /\ UNCHANGED << pc, it, out, late, ended, pulls, res, log >>

GetCall ==
    /\ pc = "built" /\ w.kind = "Peeked"
    /\ res' = [op |-> "get", item |-> Peeked_get(w).item, rest |-> Peeked_get(w).rest]
    /\ pc' = "done"
    /\ UNCHANGED << w, depth, call, it, out, late, ended, pulls, log >>

\* ------------------------------------------------- downgrade and pulling
\* A downgrade that can be taken again from a wrapper already downgraded.
IntoIter_again ==
    /\ pc \in {"built", "iter"}
    /\ it' = into_iter(w)
    /\ pc' = "iter"
    /\ res' = [op |-> "into_iter"]
    /\ UNCHANGED << w, depth, call, out, late, ended, pulls, log >>

IntoIter ==
    /\ pc = "built"
    /\ it' = into_iter(w)
    /\ pc' = "iter"
    /\ res' = [op |-> "into_iter"]
    /\ UNCHANGED << w, depth, call, out, late, ended, pulls, log >>

Pull ==
    /\ pc = "iter"
    /\ pulls <= MaxPulls
    /\ LET r == next(it)
       IN /\ it' = r.it
          /\ out' = IF IsSome(r.val) /\ ~ended THEN Append(out, Unwrap(r.val)) ELSE out
          /\ late' = IF IsSome(r.val) /\ ended THEN Append(late, Unwrap(r.val)) ELSE late
          /\ ended' = (ended \/ ~IsSome(r.val))
          /\ log' = log \o r.ev
    /\ pulls' = pulls + 1
    /\ UNCHANGED << pc, w, depth, call, res >>

\* ------------------------- operations that return an ordinary iterator
\* The wrapper is downgraded and the std adapter built over it is handed out;
\* it is pulled like any downgraded iterator. These calls count for the bound
\* on the length of a chain of calls, and searching adapters are called on
\* finite producers: a search that never finds does not return on an endless one.
Ordinary(op, f, iterator) ==
    /\ pc = "built" /\ ItemTy(w) = "int"
    /\ depth < MaxDepth
    /\ Elems(w).ended
    /\ it' = iterator
    /\ res' = [op |-> op, f |-> f]
    /\ pc' = "iter"
    /\ UNCHANGED << w, depth, call, out, late, ended, pulls, log >>

FilterCall ==
    \E p \in PredFns :
        Ordinary("filter", p, [kind |-> "filter", iter |-> into_iter(w), predicate |-> p])

FilterMapCall ==
    \E f \in OptFns :
        Ordinary("filter_map", f, [kind |-> "filter_map", iter |-> into_iter(w), f |-> f])

SkipCall ==
    \E n \in Counts :
        Ordinary("skip", n, [kind |-> "skip", iter |-> into_iter(w), n |-> n])

SkipWhileCall ==
    \E p \in PredFns :
        Ordinary("skip_while", p,
                 [kind |-> "skip_while", iter |-> into_iter(w), flag |-> FALSE,
                  predicate |-> p])

TakeWhileCall ==
    \E p \in PredFns :
        Ordinary("take_while", p,
                 [kind |-> "take_while", iter |-> into_iter(w), flag |-> FALSE,
                  predicate |-> p])

MapWhileCall ==
    \E f \in OptFns :
        Ordinary("map_while", f, [kind |-> "map_while", iter |-> into_iter(w), predicate |-> f])

ScanCall ==
    Ordinary("scan", "sum", [kind |-> "scan", iter |-> into_iter(w), f |-> "sum", state |-> 0])

\* ----------------------------- operations that return an optional value
Returned(op, f, r) ==
    /\ pc = "built" /\ ItemTy(w) = "int"
    /\ depth < MaxDepth
    /\ Elems(w).ended
    /\ res' = [op |-> op, f |-> f, val |-> r.val]
    /\ log' = log \o r.ev
    /\ pc' = "done"
    /\ UNCHANGED << w, depth, call, it, out, late, ended, pulls >>

FindCall == \E p \in PredFns : Returned("find", p, iter_find(into_iter(w), p))

FindMapCall == \E f \in OptFns : Returned("find_map", f, iter_find_map(into_iter(w), f))

PositionCall == \E p \in PredFns : Returned("position", p, iter_position(into_iter(w), p, 0))

NthCall == \E n \in Counts : Returned("nth", n, nth_method(w, n))

\* ------------------------------------------------- consuming operations
Consume ==
    /\ pc = "built"
    /\ \E c \in consume(w) :
        /\ res' = [op |-> "consume", item |-> c.item, ub |-> c.ub, rest |-> c.rest]
        /\ it' = c.rest
        /\ log' = log \o c.ev
    /\ pc' = "iter"
    /\ UNCHANGED << w, depth, call, out, late, ended, pulls >>

\* A consuming operation that returns once the producer has ended.
Finish(op, f, outcomes) ==
    /\ \E o \in outcomes :
        /\ o.ended
        /\ res' = [op |-> op, f |-> f, val |-> o.val, ub |-> o.ub, calls |-> o.calls]
        /\ log' = log \o o.ev
    /\ pc' = "done"
    /\ UNCHANGED << w, depth, call, it, out, late, ended, pulls >>

\* Operations that compare or add need numeric items.
IntItems == pc = "built" /\ ItemTy(w) = "int"

Count == pc = "built" /\ Finish("count", << >>, count(w, Fuel))

Last == pc = "built" /\ Finish("last", << >>, last(w, Fuel))

Reduce == \E f \in ReduceFns : IntItems /\ Finish("reduce", f, reduce(w, f, Fuel))

Max == IntItems /\ Finish("max", << >>, max(w, Fuel))

MaxBy == \E c \in CompareFns : IntItems /\ Finish("max_by", << c >>, max_by(w, c, Fuel))

MaxByKey == \E k \in KeyFns : IntItems /\ Finish("max_by_key", << k >>, max_by_key(w, k, Fuel))

Min == IntItems /\ Finish("min", << >>, min(w, Fuel))

MinBy == \E c \in CompareFns : IntItems /\ Finish("min_by", << c >>, min_by(w, c, Fuel))

MinByKey == \E k \in KeyFns : IntItems /\ Finish("min_by_key", << k >>, min_by_key(w, k, Fuel))

Fold ==
    \E f \in { << "add" >>, << "right" >> } :
        IntItems /\ Finish("fold", f, fold_method(w, 0, f, Fuel))

\* exhaust is for_each(drop), the loop `while let Some(x) = iter.next() { drop(x) }`
\* over the downgraded wrapper: the call enters the loop, each step is one turn
\* of it, and the call returns at the first absent pull. The call counts for the
\* bound on the length of a chain of calls, the turns for the bound on pulls.
ExhaustCall ==
    /\ pc = "built"
    /\ depth < MaxDepth
    /\ it' = into_iter(w)
    /\ res' = [op |-> "exhaust"]
    /\ pc' = "draining"
    /\ UNCHANGED << w, depth, call, out, late, ended, pulls, log >>

ExhaustStep ==
    /\ pc = "draining"
    /\ pulls <= MaxPulls
    /\ LET pulled(r) ==
            /\ it' = r.it
            /\ log' = log \o r.ev
            /\ ended' = ~IsSome(r.val)
            /\ pc' = IF IsSome(r.val) THEN "draining" ELSE "done"
       IN pulled(next(it))
    /\ pulls' = pulls + 1
    /\ UNCHANGED << w, depth, call, out, late, res >>

Collect ==
    \E C \in Collections :
        /\ pc = "built"
        /\ C = "BTreeSet" => ItemTy(w) = "int"
        /\ Finish("collect", C, collect(w, C, Fuel))

Next ==
    \/ TryIntoNonEmptyIter
    \/ OnceCall
    \/ OnceWithCall
    \/ RepeatCall
    \/ RepeatWithCall
    \/ RepeatNCall
    \/ SuccessorsCall
    \/ PeekedNew
    \/ TakeCall
    \/ StepByCall
    \/ ZipCall
    \/ ZipFnCall
    \/ ChainCall
    \/ ChainFnCall
    \/ MapCall
    \/ ClonedCall
    \/ CopiedCall
    \/ EnumerateCall
    \/ InspectCall
    \/ FuseCall
    \/ RevCall
    \/ CycleCall
    \/ FlattenCall
    \/ FlatMapCall
    \/ PeekedCall
    \/ PeekCall
    \/ PeekMutCall
    \/ GetCall
    \/ FilterCall
    \/ FilterMapCall
    \/ SkipCall
    \/ SkipWhileCall
    \/ TakeWhileCall
    \/ MapWhileCall
    \/ ScanCall
    \/ FindCall
    \/ FindMapCall
    \/ PositionCall
    \/ NthCall
    \/ IntoIter
    \/ Pull
    \/ Consume
    \/ Count
    \/ Collect
    \/ Fold
    \/ ExhaustCall
    \/ ExhaustStep
    \/ Last
    \/ Reduce
    \/ Max
    \/ MaxBy
    \/ MaxByKey
    \/ Min
    \/ MinBy
    \/ MinByKey

Spec == Init /\ [][Next]_vars

\* Building a chain, downgrading it, pulling it, and draining it with exhaust:
\* the part of Next a drain runs through.
DrainNext ==
    \/ TryIntoNonEmptyIter
    \/ OnceCall
    \/ OnceWithCall
    \/ RepeatCall
    \/ RepeatWithCall
    \/ RepeatNCall
    \/ SuccessorsCall
    \/ PeekedNew
    \/ TakeCall
    \/ StepByCall
    \/ ZipCall
    \/ ZipFnCall
    \/ ChainCall
    \/ ChainFnCall
    \/ MapCall
    \/ ClonedCall
    \/ CopiedCall
    \/ EnumerateCall
    \/ InspectCall
    \/ FuseCall
    \/ RevCall
    \/ CycleCall
    \/ FlattenCall
    \/ FlatMapCall
    \/ IntoIter
    \/ Pull
    \/ ExhaustCall
    \/ ExhaustStep

\* One turn of the draining loop, by ExhaustStep's guard and its effect on the
\* pull counter. Next allows no other step from a draining state, so a
\* LoopTurn step is an ExhaustStep step and both are enabled in the same states.
LoopTurn ==
    /\ pc = "draining"
    /\ pulls <= MaxPulls
    /\ pulls' = pulls + 1

\* A call that has entered its draining loop keeps running: the code is
\* sequential and each turn of the loop is one pull.
LiveSpec == Init /\ [][DrainNext]_vars /\ WF_pulls(LoopTurn)

\* ----------------------------------------------------------------- claims
Downgraded == pc = "iter" /\ res.op = "into_iter"

Range(seq) == { seq[i] : i \in 1..Len(seq) }

IsPrefix(p, seq) == Len(p) <= Len(seq) /\ p = SubSeq(seq, 1, Len(p))

HasNext(x) == IsSome(next(x).val)

\* C1: every wrapper built through the safe constructors and adapters yields
\* at least one element, once downgraded, before it signals exhaustion: after
\* the first pull the output is not empty.
C1_CoreInvariant == (Downgraded /\ pulls >= 1) => Len(out) >= 1

\* C2: try_into_non_empty_iter returns a present result exactly when the input
\* has an element; on an empty input the result is absent and no wrapper
\* exists; the adapter it constructs holds the element the peek observed.
C2_TryIntoPresentIffNonEmpty ==
    call.op = "try_into_non_empty_iter" =>
        /\ IsSome(call.result) <=> call.self # << >>
        /\ ~IsSome(call.result) => (pc = "absent" /\ w = NoWrapper)
        /\ IsSome(call.result) =>
            /\ Unwrap(call.result).kind = "NonEmptyAdapter"
            /\ Unwrap(call.result).iterable.peeked = Some(Some(Head(call.self)))

C2_Witness == pc = "absent" /\ call.op = "try_into_non_empty_iter" /\ call.self = << >>

\* C3: the value returned by try_into_non_empty_iter over [x1..xn] drains to
\* exactly [x1..xn]: what has been pulled is always a prefix of the input, and
\* at exhaustion it is the whole input.
C3_RoundTrip ==
    (Downgraded /\ call.op = "try_into_non_empty_iter") =>
        /\ IsPrefix(out, call.self)
        /\ ended => out = call.self

C3_Witness ==
    /\ Downgraded /\ call.op = "try_into_non_empty_iter"
    /\ ended /\ Len(out) >= 2 /\ out = call.self

\* C4: consume on a producer with elements [e1..en], n >= 1, returns e1 and the
\* iterator as it is after exactly one pull; draining that rest yields [e2..en].
C4_Consume ==
    LET elems == Elems(w)
    IN (pc = "iter" /\ res.op = "consume" /\ elems.ended /\ Len(elems.items) >= 1) =>
        /\ ~res.ub
        /\ res.item = Head(elems.items)
        /\ res.rest = next(into_iter(w)).it
        /\ IsPrefix(out, Tail(elems.items))
        /\ ended => out = Tail(elems.items)

C4_Witness ==
    /\ pc = "iter" /\ res.op = "consume" /\ ended
    /\ Len(out) >= 1 /\ << res.item >> \o out = Elems(w).items

\* C5: on a finite non-empty input max, min, max_by, max_by_key, min_by,
\* min_by_key, last and reduce return a present value: the selecting ones an
\* element of the input; on a single-element input [x] each returns x and
\* reduce does not call its function.
Aggregates ==
    {"max", "min", "max_by", "max_by_key", "min_by", "min_by_key", "last", "reduce"}

C7_Take ==
    LET up == Elems(call.self)
        n == Len(up.items)
        expected == SubSeq(up.items, 1, Min2(call.count, n))
    IN (Downgraded /\ call.op = "take" /\ n >= 1 /\ (up.ended \/ n >= call.count)) =>
        /\ IsPrefix(out, expected)
        /\ ended => (out = expected /\ Len(out) >= 1)

C7_Witness ==
    /\ Downgraded /\ call.op = "take" /\ ended
    /\ call.count >= 2 /\ Len(out) = call.count
    /\ Len(Elems(call.self).items) > call.count

\* C8: step_by(k), k >= 1, over a producer with elements [e1..en], n >= 1,
\* yields exactly the elements at zero-based positions 0, k, 2k, ... below n;
\* the first element is always yielded.
C8_StepBy ==
    LET up == Elems(call.self)
        n == Len(up.items)
        k == call.step
        expectedLen == ((n - 1) \div k) + 1
    IN (Downgraded /\ call.op = "step_by" /\ n >= 1) =>
        /\ \A i \in 1..Len(out) : ((i - 1) * k + 1 <= n) => out[i] = up.items[(i - 1) * k + 1]
        /\ up.ended => Len(out) <= expectedLen
        /\ (up.ended /\ ended) => Len(out) = expectedLen
        /\ pulls >= 1 => (Len(out) >= 1 /\ out[1] = up.items[1])

C8_Witness ==
    /\ Downgraded /\ call.op = "step_by" /\ ended
    /\ call.step = 2 /\ Len(Elems(call.self).items) = 3 /\ Len(out) = 2
    /\ out = << Elems(call.self).items[1], Elems(call.self).items[3] >>

\* C9: zip of producers [a1..am] and [b1..bn], m, n >= 1, yields exactly the
\* min(m, n) pairs (ai, bi), at least one; the free function zip and the
\* method zip yield the same pairs.
C9_ZipLength ==
    LET as == Elems(call.first)
        bs == Elems(call.second)
        m == Len(as.items)
        n == Len(bs.items)
        expected == [i \in 1..Min2(m, n) |-> << as.items[i], bs.items[i] >>]
    IN (Downgraded /\ call.op \in {"zip", "zip_fn"} /\ m >= 1 /\ n >= 1
            /\ bs.ended /\ (as.ended \/ m >= n)) =>
        /\ IsPrefix(out, expected)
        /\ ended => (out = expected /\ Len(out) >= 1)

C9_Witness ==
    /\ Downgraded /\ call.op = "zip_fn" /\ ended
    /\ Len(Elems(call.first).items) > Len(Elems(call.second).items)
    /\ Len(out) = Len(Elems(call.second).items)
    /\ out[1] = << Elems(call.first).items[1], Elems(call.second).items[1] >>

\* C10 as stated: the zip yields a pair whenever at least one of the two
\* inputs still has an element.
C10_PairsWhileEither ==
    (Downgraded /\ w.kind = "Zip") =>
        (IsSome(next(it).val) <=> (HasNext(it.a) \/ HasNext(it.b)))

\* C10 amended: the zip yields a pair exactly while both inputs still have an
\* element; it signals exhaustion as soon as either input has none left.
C10_PairsWhileBoth ==
    (Downgraded /\ w.kind = "Zip") =>
        (IsSome(next(it).val) <=> (HasNext(it.a) /\ HasNext(it.b)))

C10_Witness ==
    /\ Downgraded /\ w.kind = "Zip" /\ Len(out) >= 1
    /\ HasNext(it.a) /\ ~HasNext(it.b) /\ ~IsSome(next(it).val)

\* The concatenation of a sequence of sequences, in order.
RECURSIVE Concat(_)
Concat(seqs) == IF seqs = << >> THEN << >> ELSE Head(seqs) \o Concat(Tail(seqs))

\* The runs flatten / flat_map go through: for each outer element, in outer
\* order, the sequence that the element (flatten) or the function's result for
\* it (flat_map) yields as an ordinary producer.
RunsOf(c) ==
    LET outer == Elems(c.self).items
    IN [i \in 1..Len(outer) |->
            IF c.op = "flat_map"
            THEN Elems(ApplyFlatMap(c.function, outer[i])).items
            ELSE Elems(outer[i]).items]

\* C11: flat_map over outer elements [o1..on] with function f yields exactly
\* f(o1) ++ ... ++ f(on), each run in its own order and the runs in outer
\* order; flatten yields the same concatenation of the outer items themselves.
C11_FlatMapConcat ==
    (Downgraded /\ call.op \in {"flatten", "flat_map"} /\ Elems(call.self).ended) =>
        /\ IsPrefix(out, Concat(RunsOf(call)))
        /\ ended => out = Concat(RunsOf(call))

C11_Witness ==
    /\ Downgraded /\ call.op = "flat_map" /\ call.function = "rep" /\ ended
    /\ Elems(call.self).items = << 1, 2 >> /\ out = << 1, 1, 2 >>

\* C12 as stated: in flatten and flat_map every outer element contributes at
\* least one element, so the output is at least as long as the outer sequence
\* and has at least one element, for every item type that is convertible to a
\* non-empty iterator.
C12_EveryOuterContributes ==
    (Downgraded /\ call.op \in {"flatten", "flat_map"} /\ Elems(call.self).ended /\ ended) =>
        /\ Len(out) >= Len(Elems(call.self).items)
        /\ Len(out) >= 1

\* C13: cycle over a replayable producer with elements [e1..en], n >= 1, yields
\* at zero-based position i the element e_((i mod n) + 1), and never signals
\* exhaustion: every pull yields an element.
C13_Cycle ==
    LET up == Elems(call.self)
        n == Len(up.items)
    IN (Downgraded /\ call.op = "cycle" /\ up.ended /\ n >= 1) =>
        /\ ~ended
        /\ Len(out) = pulls
        /\ \A i \in 1..Len(out) : out[i] = up.items[((i - 1) % n) + 1]

C13_Witness ==
    /\ Downgraded /\ call.op = "cycle" /\ ItemTy(call.self) = "int"
    /\ Elems(call.self).items = << 1, 2 >> /\ out = << 1, 2, 1, 2, 1 >>

\* C14: chain of a producer with elements [a1..am], m >= 1, with a producer
\* with elements [b1..bk], k >= 0, yields exactly [a1..am, b1..bk], of length
\* m + k; with an empty right side that is the left side. The free function
\* chain and the method chain build the same wrapper.
C14_Chain ==
    LET as == Elems(call.self)
        expected == as.items \o call.other
    IN (Downgraded /\ call.op \in {"chain", "chain_fn"} /\ as.ended /\ Len(as.items) >= 1) =>
        /\ IsPrefix(out, expected)
        /\ ended => (out = expected /\ Len(out) = Len(as.items) + Len(call.other))
        /\ (ended /\ call.other = << >>) => out = as.items
        /\ chain(call.self, VecIter(call.other, "b")) = chain_method(call.self, VecIter(call.other, "b"))
        /\ w = chain_method(call.self, VecIter(call.other, "b"))

C14_Witness ==
    /\ Downgraded /\ call.op = "chain_fn" /\ ended
    /\ Len(Elems(call.self).items) >= 2 /\ Len(call.other) >= 2
    /\ out = Elems(call.self).items \o call.other

\* A step that leaves a wrapper to work with: a source call, or a call on w
\* that does not downgrade it.
Constructs == pc' = "built" /\ (pc = "start" \/ depth' # depth)

\* C15 as stated: constructing any source or adapter other than the checked
\* conversion, peeked included, pulls no element from an upstream producer and
\* calls no closure.
C15_ConstructionIsLazy ==
    [][(Constructs /\ call'.op # "try_into_non_empty_iter") => log' = log]_vars

\* C15 amended: constructing any source or adapter other than peeked pulls no
\* element and calls no closure; peeked pulls exactly one element from the
\* downgraded upstream when it is called, with the closure calls that pull
\* makes. Every other pull and closure call happens in a step that downgrades.
C15_LazyExceptPeeked ==
    [][/\ (Constructs /\ call'.op \notin {"try_into_non_empty_iter", "peeked"})
            => log' = log
       /\ (Constructs /\ call'.op = "peeked") => log' = log \o next(into_iter(w)).ev
       /\ log' # log => \/ pc' \in {"iter", "draining", "done"}
                         \/ (Constructs /\ call'.op \in {"try_into_non_empty_iter", "peeked"})
                         \/ pc' = "absent"]_vars

C15_Witness ==
    /\ pc = "built" /\ call.op = "peeked" /\ call.self.kind = "Map"
    /\ call.self.non_empty.kind = "NonEmptyAdapter"
    /\ log = << "pull.a", "call.map" >>

\* C16 as stated: no operation available on a constructed wrapper before it is
\* downgraded changes the sequence the wrapper will yield.
C16_ImmutableUntilConsumed ==
    [][(Constructs /\ call'.op \in {"peek", "peek_mut"})
            => Elems(w').items = Elems(w).items]_vars

\* C16 amended: the only such operation that changes the sequence is
\* Peeked::peek_mut, and it can replace the first item only: peek leaves the
\* wrapper as it is, and after a write through peek_mut the wrapper yields the
\* written value followed by the same rest.
C16_OnlyPeekMutWritesFirst ==
    [][/\ (Constructs /\ call'.op = "peek") => w' = w
       /\ (Constructs /\ call'.op = "peek_mut") =>
            /\ w'.kind = "Peeked" /\ w'.rest = w.rest
            /\ Elems(w').items = << call'.value >> \o Tail(Elems(w).items)]_vars

C16_Witness ==
    /\ pc = "built" /\ call.op = "peek_mut"
    /\ call.value # call.self.item
    /\ Len(Elems(w).items) >= 2
    /\ Elems(w).items = << call.value >> \o Tail(Elems(call.self).items)

\* C20: for a producer with elements [e1..en], peeked() is consume followed by
\* Peeked::new: the wrapper holds e1 and a rest that yields [e2..en]; peek
\* returns e1, get returns e1 and that rest, and the downgraded wrapper yields
\* exactly [e1..en].
C20_Peeked ==
    LET elems == Elems(call.self)
    IN (call.op = "peeked" /\ ~call.ub /\ elems.ended) =>
        /\ \E c \in consume(call.self) : w = Peeked_new(c.item, c.rest, ItemTy(call.self))
        /\ w.item = Head(elems.items)
        /\ drain(w.rest, Fuel).items = Tail(elems.items)
        /\ Peeked_peek(w) = Head(elems.items)
        /\ Peeked_get(w) = [item |-> Head(elems.items), rest |-> w.rest]
        /\ Elems(w).items = elems.items
        /\ Downgraded => (IsPrefix(out, elems.items) /\ (ended => out = elems.items))
        /\ (pc = "done" /\ res.op = "get") =>
                (res.item = Head(elems.items) /\ drain(res.rest, Fuel).items = Tail(elems.items))

C20_Witness ==
    /\ call.op = "peeked" /\ ~call.ub /\ pc = "done" /\ res.op = "get"
    /\ Len(Elems(call.self).items) >= 2
    /\ << res.item >> \o drain(res.rest, Fuel).items = Elems(call.self).items

\* C17: a wrapper has one transition, unconsumed to downgraded: into_iter and
\* every derived operation take the wrapper by value, so once it has been
\* downgraded or consumed no step downgrades or consumes it again; the only
\* steps left are pulls on the ordinary producer it became (the turns of the
\* loop, for an operation that is inside its draining loop).
C17_SingleConsumption ==
    [][/\ pc = "iter" =>
            (pc' = "iter" /\ w' = w /\ res'.op = res.op /\ pulls' = pulls + 1)
       /\ pc = "draining" =>
            (pc' \in {"draining", "done"} /\ w' = w /\ res' = res /\ pulls' = pulls + 1)
       /\ pc \in {"absent", "done"} => FALSE]_vars

C17_Witness ==
    /\ pc = "iter" /\ res.op = "into_iter" /\ w.kind = "Take" /\ pulls >= 2 /\ ended

\* C19 (as stated): nth(n), n non-zero, over [e1..em] returns e_(n+1) when n < m and
\* absent when n >= m, and the first element e1 is obtainable only via consume:
\* whenever a result holds e1 as the element at index 0, the operation was consume.
FirstObtained ==
    \/ pc = "done" /\ res.op \in {"consume", "get"}
    \/ pc = "iter" /\ res.op = "into_iter" /\ out # << >>

NthReturns ==
    (pc = "done" /\ res.op = "nth") =>
        LET items == Elems(w).items
            n == res.f
        IN /\ n >= 1
           /\ res.val = IF n < Len(items) THEN Some(items[n + 1]) ELSE None

PrefixLen(items, Ok(_)) ==
    CHOOSE k \in 0..Len(items) :
        /\ \A i \in 1..k : Ok(items[i])
        /\ k < Len(items) => ~Ok(items[k + 1])

RECURSIVE SumTo(_, _)
SumTo(items, i) == IF i = 0 THEN 0 ELSE SumTo(items, i - 1) + items[i]

\* The sequence each std adapter yields up to its first absent pull.
Yields(op, f, items) ==
    LET accepted(x) == ApplyPred(f, x)
        mapped(x) == IsSome(ApplyOpt(f, x))
        k == PrefixLen(items, accepted)
        j == PrefixLen(items, mapped)
        within(i) == SumTo(items, i) <= MaxVal
        s == CHOOSE n \in 0..Len(items) :
                 /\ \A i \in 1..n : within(i)
                 /\ n < Len(items) => ~within(n + 1)
    IN CASE op = "filter" -> SelectSeq(items, accepted)
         [] op = "filter_map" -> Concat([i \in 1..Len(items) |-> ApplyOpt(f, items[i])])
         [] op = "skip" -> SubSeq(items, f + 1, Len(items))
         [] op = "skip_while" -> SubSeq(items, k + 1, Len(items))
         [] op = "take_while" -> SubSeq(items, 1, k)
         [] op = "map_while" -> [i \in 1..j |-> Unwrap(ApplyOpt(f, items[i]))]
         [] op = "scan" -> [i \in 1..s |-> SumTo(items, i)]

OrdinaryOps ==
    {"filter", "filter_map", "skip", "skip_while", "take_while", "map_while", "scan"}
OptionOps == {"find", "find_map", "position", "nth"}

\* C18: find, find_map and position return the absent value when no element matches
\* (and the first match otherwise), nth returns absent when the index is beyond the
\* sequence; filter, filter_map, skip, skip_while, take_while, map_while and scan
\* yield exactly the selected elements and then absent, at the first pull when
\* nothing is selected (skip(k) with k >= length); the results are an optional value
\* or an ordinary iterator, never a wrapper, and no outcome is a fault.
C18_OrdinaryAbsence ==
    LET items == Elems(w).items
        m == Len(items)
        matches == { i \in 1..m : ApplyPred(res.f, items[i]) }
        present == { i \in 1..m : IsSome(ApplyOpt(res.f, items[i])) }
        least(S) == CHOOSE i \in S : \A j \in S : i <= j
        y == Yields(res.op, res.f, items)
    IN /\ (pc \in {"iter", "done"} /\ res.op \in OptionOps) =>
            /\ pc = "done"
            /\ res.op = "find" =>
                  res.val = IF matches = {} THEN None ELSE Some(items[least(matches)])
            /\ res.op = "position" =>
                  res.val = IF matches = {} THEN None ELSE Some(least(matches) - 1)
            /\ res.op = "find_map" =>
                  res.val = IF present = {} THEN None
                            ELSE ApplyOpt(res.f, items[least(present)])
            /\ res.op = "nth" => (res.val = None <=> res.f >= m)
       /\ (pc \in {"iter", "done"} /\ res.op \in OrdinaryOps) =>
            /\ pc = "iter"
            /\ it.kind = res.op
            /\ pulls <= Len(y) => (~ended /\ out = SubSeq(y, 1, pulls))
            /\ pulls = Len(y) + 1 => (ended /\ out = y)
            /\ ended => IsPrefix(y, out)

\* skip(k) with k >= length, pulled once: absent, nothing yielded; reached too by a
\* find with no match.
C18_Witness ==
    /\ pc = "iter" /\ res.op = "skip"
    /\ res.f >= Len(Elems(w).items)
    /\ pulls = 1 /\ ended /\ out = << >>

\* C21: collect (C::from_non_empty_iter(self)) into a collection type builds
\* exactly what building from the downgraded ordinary sequence gives: for Vec the
\* same elements in the same order, for BTreeSet the set of them; over a producer
\* that yields an element the collection has at least one element.
C21_Collect ==
    LET elems == Elems(w)
    IN (pc = "done" /\ res.op = "collect") =>
        /\ elems.ended
        /\ ~res.ub
        /\ res.f = "Vec" => res.val = elems.items
        /\ res.f = "BTreeSet" => res.val = Range(elems.items)
        /\ Len(elems.items) >= 1 =>
             IF res.f = "Vec" THEN Len(res.val) >= 1 ELSE Cardinality(res.val) >= 1

C21_Witness ==
    /\ pc = "done" /\ res.op = "collect" /\ res.f = "Vec"
    /\ Len(res.val) >= 3
    /\ res.val[1] # res.val[2]
    /\ call.op = "chain"

\* C22: fuse yields exactly the elements of its upstream up to the upstream's
\* first exhaustion signal, and once the fused producer has signalled exhaustion
\* every later pull signals exhaustion too, also when the upstream would yield again.
C22_Fuse ==
    LET up == Elems(call.self)
    IN (Downgraded /\ call.op = "fuse") =>
        /\ IsPrefix(out, up.items)
        /\ (up.ended /\ ended) => out = up.items
        /\ ended => (late = << >> /\ ~IsSome(next(it).val))

\* The upstream (a Peeked over a caller's iterator that is not fused) yields
\* again after its exhaustion signal; the fused producer has been pulled past it.
C22_Witness ==
    /\ Downgraded /\ call.op = "fuse" /\ ended
    /\ IsSome(next(Elems(call.self).it).val)
    /\ pulls >= Len(out) + 3
    /\ late = << >>

\* C23: once(v) yields exactly [v]; once_with(f) yields exactly one element and
\* calls f exactly once, at the first pull; repeat_n(v, k), k >= 1, yields exactly
\* k copies of v; repeat(v) and repeat_with(f) never signal exhaustion, every pull
\* yielding v, respectively calling f exactly once and yielding what it returned.
Copies(v, n) == [i \in 1..n |-> v]

C23_Generators ==
    Downgraded =>
        /\ w.kind = "Once" =>
              /\ pulls = 0 => (out = << >> /\ ~ended)
              /\ pulls = 1 => (out = << w.value >> /\ ~ended)
              /\ pulls >= 2 => (out = << w.value >> /\ ended /\ late = << >>)
        /\ w.kind = "OnceWith" =>
              /\ pulls = 0 => (out = << >> /\ log = << >> /\ ~ended)
              /\ pulls = 1 => (out = << CallGen(w.function).val >> /\ ~ended)
              /\ pulls >= 1 => log = << "call.gen" >>
              /\ pulls >= 2 => (out = << CallGen(w.function).val >> /\ ended /\ late = << >>)
        /\ w.kind = "RepeatN" =>
              /\ w.count >= 1
              /\ pulls <= w.count => (out = Copies(w.item, pulls) /\ ~ended)
              /\ pulls > w.count => (out = Copies(w.item, w.count) /\ ended /\ late = << >>)
        /\ w.kind = "Repeat" => (~ended /\ out = Copies(w.item, pulls))
        /\ w.kind = "RepeatWith" =>
              /\ ~ended
              /\ log = Copies("call.gen", pulls)
              /\ out = [i \in 1..pulls |->
                           IF w.function.name = "const" THEN w.function.state
                           ELSE w.function.state + i - 1]

C23_Witness ==
    /\ Downgraded /\ w.kind = "RepeatWith" /\ w.function.name = "counter"
    /\ pulls = 3 /\ out = << 1, 2, 3 >> /\ Len(log) = 3

\* C24: successors(initial, s) yields initial first whatever s returns; when
\* s(initial) is absent the sequence is exactly [initial]; each later element is s
\* of the element yielded before it, and the sequence ends at the first absent
\* result of s.
C24_Successors ==
    (Downgraded /\ w.kind = "Successors") =>
        /\ pulls >= 1 => (Len(out) >= 1 /\ out[1] = w.initial)
        /\ \A i \in 2..Len(out) : Some(out[i]) = ApplySucc(w.successor, out[i - 1])
        /\ ~ended => Len(out) = pulls
        /\ ended => (ApplySucc(w.successor, out[Len(out)]) = None /\ late = << >>)
        /\ pulls > Len(out) => ended
        /\ (ApplySucc(w.successor, w.initial) = None /\ pulls >= 2) =>
              (out = << w.initial >> /\ ended)

\* initial 1 with a successor absent from MaxVal on: [1, 2], then exhaustion.
C24_Witness ==
    /\ Downgraded /\ w.kind = "Successors" /\ w.successor = "up"
    /\ w.initial = 1 /\ out = << 1, 2 >> /\ ended

\* C25: over an upstream [e1..en], map(f) yields [f(e1)..f(en)], cloned and
\* copied yield [e1..en], enumerate yields [(0,e1)..(n-1,en)], and inspect(g)
\* yields [e1..en] with g called exactly once per element, in order, by the time
\* the element is yielded: same length, same order.
OneToOne == {"map", "cloned", "copied", "enumerate", "inspect"}

C25_OneToOne ==
    LET up == Elems(call.self)
        image(i) ==
            CASE call.op = "map" -> ApplyMap(call.function, up.items[i])
              [] call.op = "enumerate" -> << i - 1, up.items[i] >>
              [] OTHER -> up.items[i]
    IN (Downgraded /\ call.op \in OneToOne) =>
        /\ Len(out) <= Len(up.items)
        /\ \A i \in 1..Len(out) : out[i] = image(i)
        /\ ~ended => Len(out) = pulls
        /\ (ended /\ up.ended) => Len(out) = Len(up.items)
        /\ call.op = "inspect" => it.seen = out \o late

C25_Witness ==
    /\ Downgraded /\ call.op = "inspect" /\ ended
    /\ Len(out) = 2 /\ out[1] # out[2]
    /\ it.seen = out

\* C26: try_into_non_empty_iter pulls the original producer exactly once when it
\* converts; the element it looked at waits in the lookahead buffer and the first
\* pull of the result is served from it; every later pull pulls the original once,
\* so each element of the original is pulled exactly once and is at any time
\* either yielded, buffered or still in the producer.
C26_Lookahead ==
    LET converted == call.op = "try_into_non_empty_iter"
        buffered == IF IsSome(it.peeked) THEN Unwrap(it.peeked) ELSE << >>
    IN /\ (converted /\ pc \in {"built", "absent"}) => log = << "pull.a" >>
       /\ (converted /\ pc = "built") =>
            /\ w.iterable.peeked = Some(Some(Head(call.self)))
            /\ w.iterable.iter.items = Tail(call.self)
       /\ (converted /\ Downgraded) =>
            /\ log = Copies("pull.a", IF pulls = 0 THEN 1 ELSE pulls)
            /\ pulls >= 1 => it.peeked = None
            /\ out \o buffered \o it.iter.items = call.self
            /\ late = << >>

C26_Witness ==
    /\ call.op = "try_into_non_empty_iter" /\ Downgraded /\ ended
    /\ Len(call.self) = 2 /\ out = call.self
    /\ pulls = 3 /\ Len(log) = 3

\* C27: rev over a finite bidirectional producer [e1..en], n >= 1, yields exactly
\* [en..e1]: the same length, the first element of rev() is last() of the
\* original, and rev().rev() yields the original sequence.
Reverse(seq) == [i \in 1..Len(seq) |-> seq[Len(seq) + 1 - i]]

RECURSIVE Terminating(_)
Terminating(x) ==
    CASE x.kind \in {"NonEmptyAdapter", "Once", "OnceWith", "RepeatN"} -> TRUE
      [] x.kind = "Peeked" -> x.rest.kind \in {"vec", "resuming"}
      [] x.kind = "Successors" -> x.successor \in {"none", "up"}
      [] x.kind \in {"Repeat", "RepeatWith", "Cycle"} -> FALSE
      [] x.kind = "Zip" -> Terminating(x.first) /\ Terminating(x.second)
      [] x.kind = "Chain" -> Terminating(x.non_empty) /\ x.maybe_empty.kind = "vec"
      [] OTHER -> Terminating(x.non_empty)

\* Chains that end in repeat, repeat_with or a cycle over a producer that yields
\* an element, with no truncating adapter (take, zip with a finite side) after it.
RECURSIVE NeverEnding(_)
NeverEnding(x) ==
    CASE x.kind \in {"Repeat", "RepeatWith"} -> TRUE
      [] x.kind = "Cycle" -> Elems(x.non_empty).items # << >>
      [] x.kind \in {"Map", "Cloned", "Copied", "Enumerate", "Inspect", "Fuse", "StepBy",
                     "Chain", "Rev"} -> NeverEnding(x.non_empty)
      [] x.kind = "FlatMap" -> x.function # "user" /\ NeverEnding(x.non_empty)
      [] x.kind = "Zip" -> NeverEnding(x.first) /\ NeverEnding(x.second)
      [] OTHER -> FALSE

DrainOps ==
    {"count", "last", "max", "min", "max_by", "min_by", "max_by_key", "min_by_key",
     "reduce", "fold", "collect", "exhaust"}

\* An upper bound, read off the calls of a chain, on the number of elements a
\* finite chain yields: items that are producers hold at most two elements.
RECURSIVE Longest(_)
Longest(x) ==
    CASE x.kind \in {"NonEmptyAdapter", "Peeked"} -> MaxLen + 1
      [] x.kind \in {"Once", "OnceWith", "Repeat", "RepeatWith"} -> 1
      [] x.kind = "RepeatN" -> x.count
      [] x.kind = "Successors" -> MaxVal
      [] x.kind = "Zip" -> Longest(x.first) + Longest(x.second)
      [] x.kind = "Chain" -> Longest(x.non_empty) + MaxLen
      [] x.kind \in {"Flatten", "FlatMap"} -> 2 * Longest(x.non_empty)
      [] OTHER -> Longest(x.non_empty)

\* Whether each draining operation reached the end within the pulls given.
Reached(outcomes) == { o.ended : o \in outcomes }

\* The draining operations on x, each given one pull more than Longest(x).
Drains(x) ==
    LET drained(n) ==
            Reached(count(x, n)) \cup Reached(last(x, n))
                \cup Reached(collect(x, "Vec", n))
                \cup (IF ItemTy(x) = "int"
                      THEN Reached(reduce(x, << "add" >>, n))
                             \cup Reached(max(x, n)) \cup Reached(min(x, n))
                             \cup Reached(fold_method(x, 0, << "add" >>, n))
                      ELSE {})
    IN drained(Longest(x) + 1)

====
